---------------------------- MODULE Spec2Model ----------------------------
(***************************************************************************)
(* A model of swagger-scanner: the OpenAPI -> type-string translator        *)
(* (parser.py), the inline-schema registry and endpoint parser (parser.py), *)
(* the schema dependency resolver and the Markdown assembler                *)
(* (md_generator.py, ts_generator.py) and the driver (main.py).             *)
(*                                                                         *)
(* Python strings are sequences of one-character strings, so that the      *)
(* regular expression of extract_schema_names, str.replace, str.split,     *)
(* the substring test of parse_schema and sorted() are computed character  *)
(* by character.  JSON values carry a tag j: "none" (None / absent),       *)
(* "bool", "str", "list", "num" or "dict"; a dict is a record with the tag *)
(* and exactly the keys that are present in the Python dict.               *)
(***************************************************************************)
EXTENDS Integers, Sequences, FiniteSets, TLC

VARIABLES
    openapi,        \* the OpenAPI document the run works on (parse_schema mutates it)
    prefix,         \* the interface-name prefix (main.py -p/--prefix)
    pc,             \* position of the program
    arg,            \* argument of a function applied on its own
    ret,            \* its result
    run,            \* number of the current run of main
    input,          \* the document as fetched
    todo,           \* parse_endpoints / parse_schemas: what is left to iterate
    cur,            \* parse_endpoints: request_body, response of the current operation
    endpoints,      \* list[Endpoint]
    inline_schemas, \* the inline registry of parse_endpoints
    schemas,        \* parse_schemas' result
    all_schemas,    \* main: the merged table
    tag_list,       \* generate_per_tag_markdown: sorted(tags.keys()), what is left
    to_process,     \* get_related_schemas: the work set
    processed,      \* get_related_schemas: the visited set
    related,        \* get_related_schemas: the result, in insertion order
    tag_files,      \* generate_per_tag_markdown: filename -> content
    index_md,       \* generate_index_markdown's content
    written         \* what each finished run wrote: <<tag_files, index_md>>

vars == <<openapi, prefix, pc, arg, ret, run, input, todo, cur, endpoints,
          inline_schemas, schemas, all_schemas, tag_list, to_process,
          processed, related, tag_files, index_md, written>>

(***************************************************************************)
(* Bounds of the model.                                                    *)
(***************************************************************************)
MaxAnyOf == 3
MaxCompNames == 3

(***************************************************************************)
(* Strings.                                                                *)
(***************************************************************************)
s_any == <<"a", "n", "y">>
s_never == <<"n", "e", "v", "e", "r">>
s_null == <<"n", "u", "l", "l">>
s_string == <<"s", "t", "r", "i", "n", "g">>
s_number == <<"n", "u", "m", "b", "e", "r">>
s_integer == <<"i", "n", "t", "e", "g", "e", "r">>
s_boolean == <<"b", "o", "o", "l", "e", "a", "n">>
s_object == <<"o", "b", "j", "e", "c", "t">>
s_array == <<"a", "r", "r", "a", "y">>
s_file == <<"f", "i", "l", "e">>
s_union == <<" ", "|", " ">>
s_inter == <<" ", "&", " ">>
s_brackets == <<"[", "]">>
s_ornull == <<" ", "|", " ", "n", "u", "l", "l">>
s_record == <<"R", "e", "c", "o", "r", "d", "<", "s", "t", "r", "i", "n", "g", ",", " ">>
s_gt == <<">">>
s_lbrace == <<"{", " ">>
s_semi == <<";", " ">>
s_rbrace == <<";", " ", "}">>
s_colon == <<":", " ">>
s_opt == <<"?">>
s_quote == <<"\"">>
s_Item == <<"I", "t", "e", "m">>
s_Params == <<"P", "a", "r", "a", "m", "s">>
s_Request == <<"R", "e", "q", "u", "e", "s", "t">>
s_Response == <<"R", "e", "s", "p", "o", "n", "s", "e">>
s_get == <<"g", "e", "t">>
s_post == <<"p", "o", "s", "t">>
s_put == <<"p", "u", "t">>
s_patch == <<"p", "a", "t", "c", "h">>
s_delete == <<"d", "e", "l", "e", "t", "e">>
s_options == <<"o", "p", "t", "i", "o", "n", "s">>
s_head == <<"h", "e", "a", "d">>
s_default == <<"d", "e", "f", "a", "u", "l", "t">>
s_md == <<".", "m", "d">>
s_interface == <<"i", "n", "t", "e", "r", "f", "a", "c", "e", " ">>
s_components == <<"c", "o", "m", "p", "o", "n", "e", "n", "t", "s">>
s_schemas == <<"s", "c", "h", "e", "m", "a", "s">>
s_parameters == <<"p", "a", "r", "a", "m", "e", "t", "e", "r", "s">>
s_hashslash == <<"#", "/">>
RefBase == <<"#", "/", "c", "o", "m", "p", "o", "n", "e", "n", "t", "s", "/", "s", "c", "h", "e", "m", "a", "s", "/">>

\* None: a value that is no string.
None == <<"None">>

\* The characters in code-point order: sorted() and str comparison.
\* "bq" stands for the backquote character, which a TLA+ string cannot hold.
AsciiOrder == <<" ", "\"", "#", "&", "*", ",", "-", ".", "/", "0", "1", "2", "3", "4", "5", "6", "7", "8", "9", ":", ";", "<", ">", "?", "A", "B", "C", "D", "E", "F", "G", "H", "I", "J", "K", "L", "M", "N", "O", "P", "Q", "R", "S", "T", "U", "V", "W", "X", "Y", "Z", "[", "]", "_", "bq", "a", "b", "c", "d", "e", "f", "g", "h", "i", "j", "k", "l", "m", "n", "o", "p", "q", "r", "s", "t", "u", "v", "w", "x", "y", "z", "{", "|", "}">>
LowerLetters == <<"a", "b", "c", "d", "e", "f", "g", "h", "i", "j", "k", "l", "m", "n", "o", "p", "q", "r", "s", "t", "u", "v", "w", "x", "y", "z">>
UpperLetters == <<"A", "B", "C", "D", "E", "F", "G", "H", "I", "J", "K", "L", "M", "N", "O", "P", "Q", "R", "S", "T", "U", "V", "W", "X", "Y", "Z">>
Digits == <<"0", "1", "2", "3", "4", "5", "6", "7", "8", "9">>

Range(f) == {f[i] : i \in DOMAIN f}

Ord(c) == CHOOSE i \in DOMAIN AsciiOrder : AsciiOrder[i] = c

\* a < b for Python strings
RECURSIVE StrLess(_, _)
StrLess(a, b) ==
    IF b = <<>> THEN FALSE
    ELSE IF a = <<>> THEN TRUE
    ELSE IF a[1] = b[1] THEN StrLess(Tail(a), Tail(b))
    ELSE Ord(a[1]) < Ord(b[1])

\* sorted(S) for a set of strings
RECURSIVE Sorted(_)
Sorted(S) ==
    IF S = {} THEN <<>>
    ELSE LET m == CHOOSE x \in S : \A y \in S : y = x \/ StrLess(x, y)
         IN  <<m>> \o Sorted(S \ {m})

\* sep.join(parts)
RECURSIVE Join(_, _)
Join(sep, parts) ==
    IF parts = <<>> THEN <<>>
    ELSE IF Len(parts) = 1 THEN parts[1]
    ELSE parts[1] \o sep \o Join(sep, Tail(parts))

\* s.replace(c, by) for a one-character c
RECURSIVE Replace(_, _, _)
Replace(s, c, by) ==
    IF s = <<>> THEN <<>>
    ELSE (IF s[1] = c THEN by ELSE <<s[1]>>) \o Replace(Tail(s), c, by)

StartsWith(s, p) == Len(s) >= Len(p) /\ SubSeq(s, 1, Len(p)) = p

\* sub in s
Contains(s, sub) ==
    \E i \in 1..(Len(s) - Len(sub) + 1) : SubSeq(s, i, i + Len(sub) - 1) = sub

\* s.split(c)
RECURSIVE SplitAcc(_, _, _)
SplitAcc(s, c, acc) ==
    IF s = <<>> THEN <<acc>>
    ELSE IF s[1] = c THEN <<acc>> \o SplitAcc(Tail(s), c, <<>>)
    ELSE SplitAcc(Tail(s), c, Append(acc, s[1]))

Split(s, c) == SplitAcc(s, c, <<>>)

(***************************************************************************)
(* JSON values.                                                            *)
(***************************************************************************)
JNone == [j |-> "none"]
JBool(b) == [j |-> "bool", b |-> b]
JStr(s) == [j |-> "str", s |-> s]
JList(l) == [j |-> "list", l |-> l]
JNum(n) == [j |-> "num", n |-> n]
EmptyDict == [j |-> "dict"]
NoProps == <<>>

IsDict(v) == v.j = "dict"
Has(d, k) == k \in DOMAIN d
Get(d, k, dflt) == IF k \in DOMAIN d THEN d[k] ELSE dflt

\* bool(v) for a schema node: None, False and {} are falsy
Truthy(v) ==
    CASE v.j = "none" -> FALSE
      [] v.j = "bool" -> v.b
      [] v.j = "dict" -> DOMAIN v # {"j"}
      [] v.j = "str" -> v.s # <<>>
      [] v.j = "list" -> v.l # <<>>
      [] OTHER -> TRUE

\* schema.get("type") == t, for a dict
TypeIs(schema, t) ==
    /\ Has(schema, "type")
    /\ schema.type.j = "str"
    /\ schema.type.s = t

\* schema.get("properties") is truthy
HasProps(schema) == Has(schema, "properties") /\ DOMAIN schema.properties # {}

\* isinstance(items, dict) and items.get("type") == "object" and items.get("properties")
IsInlineObject(v) == IsDict(v) /\ TypeIs(v, s_object) /\ HasProps(v)

(***************************************************************************)
(* parser.py                                                               *)
(***************************************************************************)
\* The document has the keys "paths" and "components"; "components" has
\* "schemas" and "parameters", each a table keyed by name.
resolve_ref(doc, ref) ==
    IF ~StartsWith(ref, s_hashslash) THEN EmptyDict
    ELSE LET parts == Split(SubSeq(ref, 3, Len(ref)), "/")
             table == IF Len(parts) >= 2 /\ parts[1] = s_components
                      THEN IF parts[2] = s_schemas THEN doc.components.schemas
                           ELSE IF parts[2] = s_parameters THEN doc.components.parameters
                           ELSE NoProps
                      ELSE NoProps
         IN  IF Len(parts) = 3 /\ parts[3] \in DOMAIN table
             THEN table[parts[3]]
             ELSE EmptyDict

sanitize_name(name) == Replace(Replace(name, "-", <<"_">>), " ", <<"_">>)

get_ref_name(ref) ==
    LET parts == Split(ref, "/")
    IN  sanitize_name(parts[Len(parts)])

PropNames(schema) == DOMAIN Get(schema, "properties", NoProps)
RequiredSet(schema) == Range(Get(schema, "required", <<>>))

\* The test of the loop body of find_matching_schema (lines 106-115).
SchemaMatchesMut(inline_schema, schema_def) ==
    PropNames(inline_schema) = PropNames(schema_def)

SchemaMatches(inline_schema, schema_def) ==
    LET inline_props == PropNames(inline_schema)
        inline_required == RequiredSet(inline_schema)
        schema_props == PropNames(schema_def)
        schema_required == RequiredSet(schema_def)
    IN  IF inline_required # {} /\ schema_required # {}
        THEN inline_required = schema_required /\ inline_props = schema_props
        ELSE inline_props = schema_props

\* for name in sorted(schemas.keys()): ... return name
RECURSIVE FirstMatch(_, _, _)
FirstMatch(inline_schema, table, names) ==
    IF names = <<>> THEN None
    ELSE IF SchemaMatches(inline_schema, table[names[1]]) THEN names[1]
    ELSE FirstMatch(inline_schema, table, Tail(names))

find_matching_schema(inline_schema, doc) ==
    IF ~IsDict(inline_schema) THEN None
    ELSE IF PropNames(inline_schema) = {} THEN None
    ELSE FirstMatch(inline_schema, doc.components.schemas,
                    Sorted(DOMAIN doc.components.schemas))

\* The anyOf branch of openapi_type_to_ts (lines 153-166): the loop over the
\* members, then the result.
RECURSIVE openapi_type_to_ts(_, _, _)

RECURSIVE AnyOfLoop(_, _, _, _)
AnyOfLoop(members, doc, pfx, acc) ==
    IF members = <<>> THEN acc
    ELSE LET s == members[1]
         IN  IF IsDict(s) /\ TypeIs(s, s_null)
             THEN AnyOfLoop(Tail(members), doc, pfx,
                            [acc EXCEPT !.has_null = TRUE])
             ELSE AnyOfLoop(Tail(members), doc, pfx,
                            [acc EXCEPT !.types =
                                Append(@, openapi_type_to_ts(s, doc, pfx))])

AnyOfResultMut(acc) ==
    IF acc.types = <<>> THEN s_any
    ELSE Join(s_union, acc.types) \o (IF acc.has_null THEN s_ornull ELSE <<>>)

AnyOfResult(acc) ==
    IF acc.types = <<>> THEN (IF acc.has_null THEN s_null ELSE s_any)
    ELSE Join(s_union, acc.types) \o (IF acc.has_null THEN s_ornull ELSE <<>>)

\* schema_type and is_nullable of lines 168-178
BaseType(schema) ==
    LET t == Get(schema, "type", JStr(s_any))
    IN  IF t.j = "list"
        THEN IF s_null \in Range(t.l)
             THEN LET non_null == SelectSeq(t.l, LAMBDA x : x # s_null)
                  IN  [schema_type |-> IF non_null # <<>> THEN non_null[1] ELSE s_any,
                       is_nullable |-> TRUE]
             ELSE [schema_type |-> IF t.l # <<>> THEN t.l[1] ELSE s_any,
                   is_nullable |-> FALSE]
        ELSE IF t.j = "str" THEN [schema_type |-> t.s, is_nullable |-> FALSE]
        ELSE [schema_type |-> None, is_nullable |-> FALSE]

maybe_nullable(t, is_nullable) == IF is_nullable THEN t \o s_ornull ELSE t

Quoted(v) == s_quote \o v \o s_quote

MapSeq(f(_), s) == [i \in DOMAIN s |-> f(s[i])]

openapi_type_to_ts(schema, doc, pfx) ==
    IF schema.j = "none" THEN s_any
    ELSE IF schema.j = "bool" THEN (IF schema.b THEN s_any ELSE s_never)
    ELSE IF ~IsDict(schema) THEN s_any
    ELSE IF Has(schema, "$ref") THEN pfx \o get_ref_name(schema["$ref"])
    ELSE IF Has(schema, "allOf")
    THEN Join(s_inter, MapSeq(LAMBDA s : openapi_type_to_ts(s, doc, pfx), schema.allOf))
    ELSE IF Has(schema, "oneOf")
    THEN Join(s_union, MapSeq(LAMBDA s : openapi_type_to_ts(s, doc, pfx), schema.oneOf))
    ELSE IF Has(schema, "anyOf")
    THEN AnyOfResult(AnyOfLoop(schema.anyOf, doc, pfx,
                               [types |-> <<>>, has_null |-> FALSE]))
    ELSE
    LET bt == BaseType(schema)
        schema_type == bt.schema_type
        nl(t) == maybe_nullable(t, bt.is_nullable)
    IN  IF Has(schema, "enum")
        THEN nl(Join(s_union, MapSeq(Quoted, schema.enum)))
        ELSE IF schema_type = s_string THEN nl(s_string)
        ELSE IF schema_type = s_integer \/ schema_type = s_number THEN nl(s_number)
        ELSE IF schema_type = s_boolean THEN nl(s_boolean)
        ELSE IF schema_type = s_array
        THEN LET items == Get(schema, "items", EmptyDict)
                 matched == IF IsInlineObject(items)
                            THEN find_matching_schema(items, doc)
                            ELSE None
             IN  IF matched # None
                 THEN nl(pfx \o sanitize_name(matched) \o s_brackets)
                 ELSE nl(openapi_type_to_ts(items, doc, pfx) \o s_brackets)
        ELSE IF schema_type = s_object
        THEN LET additional == Get(schema, "additionalProperties", JNone)
             IN  IF Truthy(additional)
                 THEN nl(s_record \o openapi_type_to_ts(additional, doc, pfx) \o s_gt)
                 ELSE IF HasProps(schema)
                 THEN LET matched == find_matching_schema(schema, doc)
                          props == schema.properties
                          required == RequiredSet(schema)
                          names == Sorted(DOMAIN props)
                          prop_types ==
                              [i \in DOMAIN names |->
                                  names[i]
                                  \o (IF names[i] \in required THEN <<>> ELSE s_opt)
                                  \o s_colon
                                  \o openapi_type_to_ts(props[names[i]], doc, pfx)]
                      IN  IF matched # None
                          THEN nl(pfx \o sanitize_name(matched))
                          ELSE nl(s_lbrace \o Join(s_semi, prop_types) \o s_rbrace)
                 ELSE nl(s_object)
        ELSE nl(s_any)

\* parse_schema: the Schema, the properties mapping the loop over allOf leaves
\* behind (all_props, which is schema_def["properties"] itself when the key is
\* present), and whether prop_schema.get raised (a property that is no dict).
RECURSIVE AllOfMerge(_, _, _)
AllOfMerge(subs, doc, acc) ==
    IF subs = <<>> THEN acc
    ELSE LET sub_schema == subs[1]
             src == IF Has(sub_schema, "$ref")
                    THEN resolve_ref(doc, sub_schema["$ref"])
                    ELSE sub_schema
         IN  AllOfMerge(Tail(subs), doc,
                 [all_props |-> Get(src, "properties", NoProps) @@ acc.all_props,
                  required_fields |-> acc.required_fields \cup RequiredSet(src)])

\* lines 595-597 for one property
NullableTypeMut(prop_schema, ts_type) ==
    IF Get(prop_schema, "nullable", FALSE)
    THEN ts_type \o s_ornull
    ELSE ts_type

NullableType(prop_schema, ts_type) ==
    IF Get(prop_schema, "nullable", FALSE) /\ ~Contains(ts_type, s_null)
    THEN ts_type \o s_ornull
    ELSE ts_type

parse_schema(name, schema_def, doc, pfx) ==
    LET merged == IF Has(schema_def, "allOf")
                  THEN AllOfMerge(schema_def.allOf, doc,
                           [all_props |-> Get(schema_def, "properties", NoProps),
                            required_fields |-> RequiredSet(schema_def)])
                  ELSE [all_props |-> Get(schema_def, "properties", NoProps),
                        required_fields |-> RequiredSet(schema_def)]
        all_props == merged.all_props
        names == Sorted(DOMAIN all_props)
    IN  [raised |-> \E n \in DOMAIN all_props : ~IsDict(all_props[n]),
         all_props |-> all_props,
         schema |->
            [name |-> name,
             properties |->
                [i \in DOMAIN names |->
                    LET prop_schema == all_props[names[i]]
                    IN  [name |-> names[i],
                         type_str |-> IF IsDict(prop_schema)
                                      THEN NullableType(prop_schema,
                                               openapi_type_to_ts(prop_schema, doc, pfx))
                                      ELSE None,
                         required |-> names[i] \in merged.required_fields]]]]

(***************************************************************************)
(* Inputs: names, schema nodes, documents.                                 *)
(***************************************************************************)
s_I == <<"I">>
s_T == <<"T">>
n_a == <<"a">>
n_b == <<"b">>
n_A == <<"A">>
n_B == <<"B">>
n_C == <<"C">>
n_U == <<"U">>
n_User == <<"U", "s", "e", "r">>

Ref(name) == ("$ref" :> (RefBase \o name)) @@ [j |-> "dict"]
Typed(t) == [j |-> "dict", type |-> JStr(t)]
TypedList(l) == [j |-> "dict", type |-> JList(l)]
Obj(props, req) ==
    [j |-> "dict", type |-> JStr(s_object), properties |-> props, required |-> req]
ObjNoReq(props) == [j |-> "dict", type |-> JStr(s_object), properties |-> props]
ArrayOf(items) == [j |-> "dict", type |-> JStr(s_array), items |-> items]
AnyOf(members) == [j |-> "dict", anyOf |-> members]

MkDoc(paths, comps) ==
    [paths |-> paths, components |-> [schemas |-> comps, parameters |-> NoProps]]

\* Sequences over S of length 0..n
SeqsUpTo(S, n) == UNION {[1..k -> S] : k \in 0..n}

\* The variables of main, parse_endpoints and the generators, at rest.
Idle ==
    /\ run = 0
    /\ input = EmptyDict
    /\ todo = <<>>
    /\ cur = EmptyDict
    /\ endpoints = <<>>
    /\ inline_schemas = NoProps
    /\ schemas = NoProps
    /\ all_schemas = NoProps
    /\ tag_list = <<>>
    /\ to_process = {}
    /\ processed = {}
    /\ related = <<>>
    /\ tag_files = NoProps
    /\ index_md = None
    /\ written = <<>>

mainVars == <<run, input, todo, cur, endpoints, inline_schemas, schemas,
              all_schemas, tag_list, to_process, processed, related,
              tag_files, index_md, written>>

(***************************************************************************)
(* find_matching_schema applied to an anonymous schema and a document.     *)
(***************************************************************************)
CompNameList == <<n_B, n_A, n_a, n_U, n_C>>
CompNameSet == {CompNameList[i] : i \in 1..MaxCompNames}

CompDefs ==
    { Obj((n_a :> Typed(s_string)), <<>>),
      Obj((n_a :> Typed(s_string)), <<n_a>>),
      Obj((n_a :> Typed(s_string)) @@ (n_b :> Typed(s_number)), <<n_a>>),
      Obj((n_a :> Typed(s_string)) @@ (n_b :> Typed(s_number)), <<n_b, n_a>>),
      ObjNoReq((n_a :> Typed(s_string)) @@ (n_b :> Typed(s_number))) }

CompTables == UNION {[S -> CompDefs] : S \in SUBSET CompNameSet}

AnonProps ==
    { NoProps,
      (n_a :> Typed(s_string)),
      (n_a :> Typed(s_number)),
      (n_a :> Typed(s_string)) @@ (n_b :> Typed(s_number)),
      (n_a :> Typed(s_boolean)) @@ (n_b :> Typed(s_string)) }

AnonSchemas ==
    {Obj(p, r) : p \in AnonProps, r \in {<<>>, <<n_a>>, <<n_b>>, <<n_a, n_b>>}}
    \cup {ObjNoReq(p) : p \in AnonProps}
    \cup {JNone}

MatchInit ==
    /\ arg \in AnonSchemas
    /\ openapi \in {MkDoc(NoProps, t) : t \in CompTables}
    /\ prefix = s_I
    /\ pc = "call"
    /\ ret = None
    /\ Idle

FindMatch ==
    /\ pc = "call"
    /\ ret' = find_matching_schema(arg, openapi)
    /\ pc' = "matched"
    /\ UNCHANGED <<openapi, prefix, arg>>
    /\ UNCHANGED mainVars

MatchNext == FindMatch

MatchSpec == MatchInit /\ [][MatchNext]_vars

(***************************************************************************)
(* openapi_type_to_ts applied to a schema node.                            *)
(***************************************************************************)
AnyOfMembers ==
    { Typed(s_string), Typed(s_null), Typed(s_integer), Ref(n_User),
      TypedList(<<s_string, s_null>>), JBool(TRUE) }

LeafNodes ==
    { JNone, JBool(TRUE), JBool(FALSE), JStr(s_string), EmptyDict,
      Typed(s_string), Typed(s_integer), Typed(s_number), Typed(s_boolean),
      Typed(s_null), Typed(s_file), Typed(s_object), Typed(s_array),
      TypedList(<<s_string, s_null>>), TypedList(<<s_null>>), TypedList(<<>>),
      TypedList(<<s_integer, s_string>>),
      [j |-> "dict", type |-> JNum(3)],
      [j |-> "dict", type |-> JStr(s_string), nullable |-> TRUE],
      [j |-> "dict", type |-> JStr(s_string), nullable |-> FALSE],
      [j |-> "dict", type |-> JList(<<s_string, s_null>>), nullable |-> TRUE],
      [j |-> "dict", type |-> JStr(s_string), enum |-> <<n_a, n_b>>],
      [j |-> "dict", type |-> JList(<<s_string, s_null>>), enum |-> <<n_a>>],
      [j |-> "dict", type |-> JStr(s_object), additionalProperties |-> Typed(s_number)],
      [j |-> "dict", type |-> JStr(s_object), additionalProperties |-> JBool(FALSE)],
      Ref(n_User), Ref(<<"a", "-", "b", " ", "c">>),
      ArrayOf(Typed(s_string)), ArrayOf(Ref(n_User)),
      ArrayOf(Obj((n_a :> Typed(s_string)), <<>>)),
      Obj((n_a :> Typed(s_string)), <<>>),
      Obj((n_a :> Typed(s_string)) @@ (n_b :> Typed(s_number)), <<n_b>>),
      Obj((n_b :> [j |-> "dict", type |-> JStr(s_string), nullable |-> TRUE]), <<>>),
      [j |-> "dict", allOf |-> <<Ref(n_User), Typed(s_object)>>],
      [j |-> "dict", oneOf |-> <<Typed(s_string), Typed(s_null)>>],
      [j |-> "dict", oneOf |-> <<>>] }

TranslateNodes == LeafNodes \cup {AnyOf(m) : m \in SeqsUpTo(AnyOfMembers, MaxAnyOf)}

TranslateDocs ==
    { MkDoc(NoProps, NoProps),
      MkDoc(NoProps, (n_User :> Obj((n_a :> Typed(s_string)), <<>>))) }

TranslateInit ==
    /\ arg \in TranslateNodes
    /\ openapi \in TranslateDocs
    /\ prefix \in {s_I, s_T}
    /\ pc = "call"
    /\ ret = None
    /\ Idle

Translate ==
    /\ pc = "call"
    /\ ret' = openapi_type_to_ts(arg, openapi, prefix)
    /\ pc' = "translated"
    /\ UNCHANGED <<openapi, prefix, arg>>
    /\ UNCHANGED mainVars

TranslateNext == Translate

TranslateSpec == TranslateInit /\ [][TranslateNext]_vars

(***************************************************************************)
(* parser.py: the inline registry and parse_endpoints.                     *)
(* A content object is the sequence of its (media type, value) entries in  *)
(* insertion order.  Descriptions, summaries' fallbacks and constraints    *)
(* are free text that no type string or schema name depends on; the model  *)
(* carries the summary only.                                               *)
(***************************************************************************)
Methods == <<s_get, s_post, s_put, s_patch, s_delete, s_options, s_head>>
StatusCodes == <<"200", "201", "default">>

\* inline_schemas[sanitized] = parse_schema(...) under "if sanitized not in
\* inline_schemas" (lines 297-298, 313-314, 459-460)
RegisterInlineMut(registry, sanitized, schema_def, doc, pfx) ==
    (sanitized :> parse_schema(sanitized, schema_def, doc, pfx).schema) @@ registry

RegisterInline(registry, sanitized, schema_def, doc, pfx) ==
    IF sanitized \in DOMAIN registry
    THEN registry
    ELSE (sanitized :> parse_schema(sanitized, schema_def, doc, pfx).schema) @@ registry

\* lines 287-300 and 304-316: the match against the components, then the
\* registration of target under the sanitized name
ExtractFrom(target, sanitized, returns_name, doc, registry, pfx) ==
    IF find_matching_schema(target, doc) # None
    THEN [name |-> None, registry |-> registry]
    ELSE [name |-> IF returns_name THEN sanitized ELSE None,
          registry |-> RegisterInline(registry, sanitized, target, doc, pfx)]

IsArrayOfInline(schema) ==
    TypeIs(schema, s_array) /\ IsInlineObject(Get(schema, "items", EmptyDict))

\* Returns the name (or None) and the registry.
extract_inline_schema(schema, name_base, doc, registry, pfx) ==
    IF ~IsDict(schema) THEN [name |-> None, registry |-> registry]
    ELSE IF Has(schema, "$ref") THEN [name |-> None, registry |-> registry]
    ELSE IF IsArrayOfInline(schema) \/ (TypeIs(schema, s_object) /\ HasProps(schema))
    THEN ExtractFrom(IF IsArrayOfInline(schema) THEN schema.items ELSE schema,
                     sanitize_name(IF IsArrayOfInline(schema)
                                   THEN name_base \o s_Item ELSE name_base),
                     ~IsArrayOfInline(schema), doc, registry, pfx)
    ELSE [name |-> None, registry |-> registry]

MediaTypes(content) == {content[i].media_type : i \in DOMAIN content}
MediaValue(content, mt) ==
    content[CHOOSE i \in DOMAIN content : content[i].media_type = mt].value

\* lines 343-352: the schema of the content, or a falsy value
ContentSchema(content) ==
    LET of(mt) == Get(MediaValue(content, mt), "schema", EmptyDict)
        json == "application/json"
        star == "*/*"
        looped == IF json \in MediaTypes(content) /\ Truthy(of(json)) THEN of(json)
                  ELSE IF star \in MediaTypes(content) THEN of(star)
                  ELSE IF json \in MediaTypes(content) THEN of(json)
                  ELSE JNone
    IN  IF Truthy(looped) THEN looped
        ELSE Get(content[1].value, "schema", EmptyDict)

\* lines 360-380: the type string, given extract_inline_schema's result ex and
\* the translation ts_type of the schema
ContentType(schema, ex, ts_type, sanitized, pfx) ==
    IF ex.name # None /\ ex.name # <<>>
    THEN [type |-> IF TypeIs(schema, s_array)
                   THEN pfx \o ex.name \o s_brackets
                   ELSE pfx \o ex.name,
          registry |-> ex.registry]
    ELSE IF IsArrayOfInline(schema) /\ sanitized \in DOMAIN ex.registry
    THEN [type |-> pfx \o sanitized \o s_brackets, registry |-> ex.registry]
    ELSE [type |-> ts_type, registry |-> ex.registry]

\* lines 354-380
SchemaType(schema, name_base, doc, registry, pfx) ==
    IF ~Truthy(schema) THEN [type |-> None, registry |-> registry]
    ELSE ContentType(schema,
                     extract_inline_schema(schema, name_base, doc, registry, pfx),
                     openapi_type_to_ts(schema, doc, pfx),
                     sanitize_name(name_base \o s_Item), pfx)

\* Returns the type string (or None) and the registry.
get_schema_from_content_with_inline(content, name_base, doc, registry, pfx) ==
    IF content = <<>> THEN [type |-> None, registry |-> registry]
    ELSE SchemaType(ContentSchema(content), name_base, doc, registry, pfx)

\* lines 405-413
RECURSIVE ResolveParams(_, _)
ResolveParams(parameters, doc) ==
    IF parameters = <<>> THEN <<>>
    ELSE LET param == parameters[1]
             rest == ResolveParams(Tail(parameters), doc)
         IN  IF Has(param, "$ref")
             THEN LET resolved == resolve_ref(doc, param["$ref"])
                  IN  IF Truthy(resolved) THEN <<resolved>> \o rest ELSE rest
             ELSE <<param>> \o rest

\* lines 419-442: properties and required_fields
RECURSIVE ParamsLoop(_, _)
ParamsLoop(params, acc) ==
    IF params = <<>> THEN acc
    ELSE LET param == params[1]
             param_name == Get(param, "name", <<>>)
         IN  IF param_name = <<>> THEN ParamsLoop(Tail(params), acc)
             ELSE ParamsLoop(Tail(params),
                    [properties |-> (param_name :> Get(param, "schema", EmptyDict))
                                    @@ acc.properties,
                     required_fields |-> IF Get(param, "required", FALSE)
                                         THEN Append(acc.required_fields, param_name)
                                         ELSE acc.required_fields])

\* lines 444-462
ParamsType(built, sanitized, doc, registry, pfx) ==
    IF DOMAIN built.properties = {}
    THEN [type |-> None, registry |-> registry]
    ELSE [type |-> pfx \o sanitized,
          registry |-> RegisterInline(registry, sanitized,
                                      Obj(built.properties, built.required_fields),
                                      doc, pfx)]

parse_parameters_to_schema(parameters, name_base, doc, registry, pfx) ==
    ParamsType(ParamsLoop(ResolveParams(parameters, doc),
                          [properties |-> NoProps, required_fields |-> <<>>]),
               sanitize_name(name_base \o s_Params), doc, registry, pfx)

LowerOf(c) ==
    IF c \in Range(UpperLetters)
    THEN LowerLetters[CHOOSE i \in DOMAIN UpperLetters : UpperLetters[i] = c]
    ELSE c
UpperOf(c) ==
    IF c \in Range(LowerLetters)
    THEN UpperLetters[CHOOSE i \in DOMAIN LowerLetters : LowerLetters[i] = c]
    ELSE c
Lower(s) == [i \in DOMAIN s |-> LowerOf(s[i])]
Upper(s) == [i \in DOMAIN s |-> UpperOf(s[i])]

\* name_base of lines 493, 503 and 512; role is "Request", "Response" or ""
NameBaseMut(operation_id, method, path, role) ==
    IF operation_id # <<>>
    THEN operation_id \o role
    ELSE Upper(method) \o path \o role

NameBase(operation_id, method, path, role) ==
    IF operation_id # <<>>
    THEN operation_id \o role
    ELSE method \o Replace(path, "/", <<"_">>) \o role

\* for path in sorted(paths.keys()): for method in [...]: if method in path_item
RECURSIVE MethodsOf(_, _, _)
MethodsOf(path, path_item, ms) ==
    IF ms = <<>> THEN <<>>
    ELSE (IF ms[1] \in DOMAIN path_item
          THEN <<[path |-> path, method |-> ms[1]]>>
          ELSE <<>>) \o MethodsOf(path, path_item, Tail(ms))

RECURSIVE OpsOf(_, _)
OpsOf(paths, names) ==
    IF names = <<>> THEN <<>>
    ELSE MethodsOf(names[1], paths[names[1]], Methods) \o OpsOf(paths, Tail(names))

OpList(doc) == OpsOf(doc.paths, Sorted(DOMAIN doc.paths))

Operation(doc, o) == doc.paths[o.path][o.method]
OperationId(operation) == Get(operation, "operationId", <<>>)

\* lines 498-508: the loop over the status codes
RECURSIVE ResponseLoop(_, _, _, _, _, _, _)

\* lines 507-508, given the result r for one status code
ResponseStep(r, codes, responses, name_base, doc, pfx) ==
    IF r.type # None /\ r.type # <<>>
    THEN r
    ELSE ResponseLoop(Tail(codes), responses, name_base, doc, r.registry, pfx, r.type)

ResponseLoop(codes, responses, name_base, doc, registry, pfx, response) ==
    IF codes = <<>> THEN [type |-> response, registry |-> registry]
    ELSE IF codes[1] \notin DOMAIN responses
    THEN ResponseLoop(Tail(codes), responses, name_base, doc, registry, pfx, response)
    ELSE ResponseStep(get_schema_from_content_with_inline(
                          Get(responses[codes[1]], "content", <<>>),
                          name_base, doc, registry, pfx),
                      codes, responses, name_base, doc, pfx)

(***************************************************************************)
(* md_generator.py and ts_generator.py.  A file's content is the sequence  *)
(* of its lines (the code joins them with a newline; no line holds one).   *)
(***************************************************************************)
md_h1 == <<"#", " ">>
md_api == <<" ", "A", "P", "I">>
md_rule == <<"-", "-", "-">>
md_endpoints == <<"#", "#", " ", "A", "P", "I", " ", "E", "n", "d", "p", "o", "i", "n", "t", "s">>
md_thead == <<"|", " ", "M", "e", "t", "h", "o", "d", " ", "|", " ", "E", "n", "d", "p", "o", "i", "n", "t", " ", "|", " ", "D", "e", "s", "c", "r", "i", "p", "t", "i", "o", "n", " ", "|", " ", "R", "e", "q", "u", "e", "s", "t", " ", "B", "o", "d", "y", " ", "|", " ", "R", "e", "s", "p", "o", "n", "s", "e", " ", "|">>
md_tsep == <<"|", "-", "-", "-", "-", "-", "-", "-", "-", "|", "-", "-", "-", "-", "-", "-", "-", "-", "-", "-", "|", "-", "-", "-", "-", "-", "-", "-", "-", "-", "-", "-", "-", "-", "|", "-", "-", "-", "-", "-", "-", "-", "-", "-", "-", "-", "-", "-", "-", "|", "-", "-", "-", "-", "-", "-", "-", "-", "-", "-", "|">>
md_interfaces == <<"#", "#", " ", "T", "y", "p", "e", "S", "c", "r", "i", "p", "t", " ", "I", "n", "t", "e", "r", "f", "a", "c", "e", "s">>
md_fence_ts == <<"bq", "bq", "bq", "t", "y", "p", "e", "s", "c", "r", "i", "p", "t">>
md_fence == <<"bq", "bq", "bq">>
md_dash == <<"-">>
md_bq == <<"bq">>
md_cell == <<" ", "|", " ">>
md_row_start == <<"|", " ">>
md_row_end == <<" ", "|">>
md_bar_esc == <<"\\", "|">>
ts_open == <<" ", "{">>
ts_close == <<"}">>
ts_indent == <<" ", " ">>
ts_semi == <<";">>
md_title == <<"A", "P", "I", " ", "D", "o", "c", "u", "m", "e", "n", "t", "a", "t", "i", "o", "n">>
md_doc == <<"#", "#", " ", "A", "P", "I", " ", "D", "o", "c", "u", "m", "e", "n", "t", "a", "t", "i", "o", "n">>
md_ihead == <<"|", " ", "M", "o", "d", "u", "l", "e", " ", "|", " ", "E", "n", "d", "p", "o", "i", "n", "t", "s", " ", "|", " ", "F", "i", "l", "e", " ", "|">>
md_isep == <<"|", "-", "-", "-", "-", "-", "-", "-", "-", "|", "-", "-", "-", "-", "-", "-", "-", "-", "-", "-", "-", "|", "-", "-", "-", "-", "-", "-", "|">>
md_link_open == <<"[">>
md_link_mid == <<"]", "(", ".", "/">>
md_link_close == <<")">>
md_total == <<"*", "T", "o", "t", "a", "l", ":", " ">>
md_total_mid == <<" ", "e", "n", "d", "p", "o", "i", "n", "t", "s", " ", "a", "c", "r", "o", "s", "s", " ">>
md_total_end == <<" ", "m", "o", "d", "u", "l", "e", "s", "*">>

IdentChars == Range(LowerLetters) \cup Range(UpperLetters) \cup Range(Digits) \cup {"_"}

\* The end of the run of [A-Za-z0-9_] that starts at i
RECURSIVE RunEnd(_, _)
RunEnd(s, i) ==
    IF i + 1 <= Len(s) /\ s[i + 1] \in IdentChars THEN RunEnd(s, i + 1) ELSE i

\* re.findall(r"I([A-Za-z0-9_]+)", s), scanning from position i
RECURSIVE FindAll(_, _)
FindAll(s, i) ==
    IF i > Len(s) THEN {}
    ELSE IF s[i] = "I" /\ i + 1 <= Len(s) /\ s[i + 1] \in IdentChars
    THEN LET e == RunEnd(s, i + 1)
         IN  {SubSeq(s, i + 1, e)} \cup FindAll(s, e + 1)
    ELSE FindAll(s, i + 1)

extract_schema_names(type_str) ==
    IF type_str = None \/ type_str = <<>> THEN {} ELSE FindAll(type_str, 1)

get_nested_schema_names(schema) ==
    UNION {extract_schema_names(schema.properties[i].type_str) :
              i \in DOMAIN schema.properties}

HasTag(ep, tag) == tag \in Range(ep.tags)

\* lines 111-117 of get_related_schemas: the initial work set
SeedNames(eps, tag) ==
    UNION {extract_schema_names(eps[i].request_body)
           \cup extract_schema_names(eps[i].response) :
              i \in {k \in DOMAIN eps : HasTag(eps[k], tag)}}

\* related is a dict in insertion order: a sequence of (key, value)
Keys(d) == {d[i].key : i \in DOMAIN d}
DictSet(d, k, v) ==
    IF k \in Keys(d)
    THEN [i \in DOMAIN d |-> IF d[i].key = k THEN [key |-> k, value |-> v] ELSE d[i]]
    ELSE Append(d, [key |-> k, value |-> v])

format_tag_name(tag) ==
    LET s == Replace(Replace(tag, "-", <<" ">>), "_", <<" ">>)
        cased(c) == c \in Range(LowerLetters) \cup Range(UpperLetters)
    IN  [i \in DOMAIN s |->
            IF i > 1 /\ cased(s[i - 1]) THEN LowerOf(s[i]) ELSE UpperOf(s[i])]

tag_to_filename(tag) == Replace(Replace(Lower(tag), " ", <<"-">>), "_", <<"-">>)

Truthy_str(s) == s # None /\ s # <<>>

EndpointRow(ep) ==
    LET request == IF Truthy_str(ep.request_body)
                   THEN md_bq \o ep.request_body \o md_bq ELSE md_dash
        response == IF Truthy_str(ep.response)
                    THEN md_bq \o ep.response \o md_bq ELSE md_dash
        summary == IF Truthy_str(ep.summary)
                   THEN Replace(Replace(ep.summary, "|", md_bar_esc), "\n", <<" ">>)
                   ELSE md_dash
    IN  md_row_start \o ep.method \o md_cell \o md_bq \o ep.path \o md_bq \o md_cell
        \o summary \o md_cell \o request \o md_cell \o response \o md_row_end

\* the lines of the table; the code's "" for no endpoint is one empty line
generate_endpoints_table(eps, tag) ==
    LET tag_endpoints == SelectSeq(eps, LAMBDA e : HasTag(e, tag))
    IN  IF tag_endpoints = <<>> THEN << <<>> >>
        ELSE <<md_thead, md_tsep>> \o [i \in DOMAIN tag_endpoints |->
                                          EndpointRow(tag_endpoints[i])]

generate_interface(schema, pfx) ==
    <<s_interface \o pfx \o schema.name \o ts_open>>
    \o [i \in DOMAIN schema.properties |->
            LET prop == schema.properties[i]
            IN  ts_indent \o prop.name \o (IF prop.required THEN <<>> ELSE s_opt)
                \o s_colon \o prop.type_str \o ts_semi]
    \o <<ts_close>>

RECURSIVE InterfaceBlocks(_, _)
InterfaceBlocks(rel, pfx) ==
    IF rel = <<>> THEN <<>>
    ELSE generate_interface(rel[1].value, pfx) \o << <<>> >>
         \o InterfaceBlocks(Tail(rel), pfx)

generate_tag_markdown(tag, eps, rel, pfx) ==
    <<md_h1 \o format_tag_name(tag) \o md_api, <<>>, md_rule, <<>>, md_endpoints, <<>>>>
    \o generate_endpoints_table(eps, tag)
    \o << <<>> >>
    \o (IF rel # <<>>
        THEN <<md_rule, <<>>, md_interfaces, <<>>, md_fence_ts>>
             \o InterfaceBlocks(rel, pfx) \o <<md_fence>>
        ELSE <<>>)

\* str(n) for the counts of the index
NumStr(n) == IF n < 10 THEN <<Digits[n + 1]>>
             ELSE <<Digits[(n \div 10) + 1], Digits[(n % 10) + 1]>>

AllTags(eps) == UNION {Range(eps[i].tags) : i \in DOMAIN eps}

\* len(tags[tag]): one entry per occurrence of the tag in an endpoint's tags
RECURSIVE TagCount(_, _)
TagCount(eps, tag) ==
    IF eps = <<>> THEN 0
    ELSE Cardinality({k \in DOMAIN eps[1].tags : eps[1].tags[k] = tag})
         + TagCount(Tail(eps), tag)

\* The documents of the model carry no "info": the defaults apply.
generate_index_markdown(eps) ==
    LET tags == Sorted(AllTags(eps))
        count(tag) == TagCount(eps, tag)
    IN  <<md_h1 \o md_title, <<>>, md_rule, <<>>, md_doc, <<>>, md_ihead, md_isep>>
        \o [i \in DOMAIN tags |->
               md_row_start \o format_tag_name(tags[i]) \o md_cell
               \o NumStr(count(tags[i])) \o md_cell
               \o md_link_open \o tag_to_filename(tags[i]) \o s_md \o md_link_mid
               \o tag_to_filename(tags[i]) \o s_md \o md_link_close \o md_row_end]
        \o << <<>>, md_rule, <<>>,
              md_total \o NumStr(Len(eps)) \o md_total_mid
              \o NumStr(Len(tags)) \o md_total_end >>

(***************************************************************************)
(* main.py: one run is parse_endpoints (an action per operation and role), *)
(* parse_schemas (an action per component schema), the merge,              *)
(* generate_per_tag_markdown (per tag: get_related_schemas, an action per  *)
(* iteration of its loop, then generate_tag_markdown) and                  *)
(* generate_index_markdown.                                                *)
(***************************************************************************)
CurOp == Operation(openapi, todo[1])
CurBase(role) == NameBase(OperationId(CurOp), todo[1].method, todo[1].path, role)

\* lines 490-496
ParseRequest ==
    /\ pc = "request"
    /\ \E r \in {IF Has(CurOp, "requestBody")
                THEN get_schema_from_content_with_inline(
                         Get(CurOp.requestBody, "content", <<>>),
                         CurBase(s_Request), openapi, inline_schemas, prefix)
                ELSE [type |-> None, registry |-> inline_schemas]} :
           /\ cur' = [request_body |-> r.type]
           /\ inline_schemas' = r.registry
    /\ pc' = "response"
    /\ UNCHANGED <<openapi, prefix, arg, ret, run, input, todo, endpoints, schemas,
                   all_schemas, tag_list, to_process, processed, related,
                   tag_files, index_md, written>>

\* lines 498-508
ParseResponse ==
    /\ pc = "response"
    /\ \E r \in {ResponseLoop(StatusCodes, Get(CurOp, "responses", NoProps),
                             CurBase(s_Response), openapi, inline_schemas, prefix, None)} :
           /\ cur' = [request_body |-> cur.request_body, response |-> r.type]
           /\ inline_schemas' = r.registry
    /\ pc' = "parameters"
    /\ UNCHANGED <<openapi, prefix, arg, ret, run, input, todo, endpoints, schemas,
                   all_schemas, tag_list, to_process, processed, related,
                   tag_files, index_md, written>>

\* lines 510-528, and the step to the next operation or to parse_schemas
ParseParameters ==
    /\ pc = "parameters"
    /\ \E r \in {IF Has(CurOp, "parameters")
                THEN parse_parameters_to_schema(CurOp.parameters, CurBase(<<>>),
                                                openapi, inline_schemas, prefix)
                ELSE [type |-> None, registry |-> inline_schemas]} :
           /\ endpoints' = Append(endpoints,
                [method |-> Upper(todo[1].method),
                 path |-> todo[1].path,
                 operation_id |-> OperationId(CurOp),
                 summary |-> Get(CurOp, "summary", <<>>),
                 tags |-> Get(CurOp, "tags", <<s_default>>),
                 request_body |-> cur.request_body,
                 response |-> cur.response,
                 parameters |-> r.type])
           /\ inline_schemas' = r.registry
    /\ cur' = EmptyDict
    /\ IF Len(todo) > 1
       THEN todo' = Tail(todo) /\ pc' = "request"
       ELSE todo' = Sorted(DOMAIN openapi.components.schemas) /\ pc' = "schemas"
    /\ UNCHANGED <<openapi, prefix, arg, ret, run, input, schemas,
                   all_schemas, tag_list, to_process, processed, related,
                   tag_files, index_md, written>>

\* parse_schemas, one iteration of lines 629-632.  parse_schema updates
\* schema_def["properties"] in place when the definition has allOf.
ParseComponent ==
    /\ pc = "schemas"
    /\ todo # <<>>
    /\ LET name == todo[1]
           schema_def == openapi.components.schemas[name]
           sanitized == sanitize_name(name)
           parsed == parse_schema(sanitized, schema_def, openapi, prefix)
       IN  /\ schemas' = (sanitized :> parsed.schema) @@ schemas
           /\ openapi' = IF Has(schema_def, "properties")
                         THEN [openapi EXCEPT !.components.schemas[name].properties =
                                                  parsed.all_props]
                         ELSE openapi
    /\ todo' = Tail(todo)
    /\ UNCHANGED <<prefix, pc, arg, ret, run, input, cur, endpoints, inline_schemas,
                   all_schemas, tag_list, to_process, processed, related,
                   tag_files, index_md, written>>

\* main.py line 54, and lines 204-209 of generate_per_tag_markdown
Merge ==
    /\ pc = "schemas"
    /\ todo = <<>>
    /\ all_schemas' = inline_schemas @@ schemas
    /\ tag_list' = Sorted(AllTags(endpoints))
    /\ tag_files' = NoProps
    /\ pc' = "tags"
    /\ UNCHANGED <<openapi, prefix, arg, ret, run, input, todo, cur, endpoints,
                   inline_schemas, schemas, to_process, processed, related,
                   index_md, written>>

\* get_related_schemas, lines 111-121
StartTag ==
    /\ pc = "tags"
    /\ tag_list # <<>>
    /\ to_process' = SeedNames(endpoints, tag_list[1])
    /\ processed' = {}
    /\ related' = <<>>
    /\ pc' = "resolve"
    /\ UNCHANGED <<openapi, prefix, arg, ret, run, input, todo, cur, endpoints,
                   inline_schemas, schemas, all_schemas, tag_list,
                   tag_files, index_md, written>>

\* As Pop, without the processed set of lines 120 and 125-127
PopMut ==
    /\ pc = "resolve"
    /\ to_process # {}
    /\ \E name \in to_process :
          IF name \in DOMAIN all_schemas
          THEN /\ related' = DictSet(related, name, all_schemas[name])
               /\ to_process' = (to_process \ {name})
                                \cup get_nested_schema_names(all_schemas[name])
          ELSE /\ related' = related
               /\ to_process' = to_process \ {name}
    /\ processed' = processed
    /\ UNCHANGED <<openapi, prefix, pc, arg, ret, run, input, todo, cur, endpoints,
                   inline_schemas, schemas, all_schemas, tag_list,
                   tag_files, index_md, written>>

\* As Pop, without lines 133-134: the nested names are not queued
PopNoNested ==
    /\ pc = "resolve"
    /\ to_process # {}
    /\ \E name \in to_process :
          IF name \in processed
          THEN /\ to_process' = to_process \ {name}
               /\ UNCHANGED <<processed, related>>
          ELSE /\ processed' = processed \cup {name}
               /\ to_process' = to_process \ {name}
               /\ related' = IF name \in DOMAIN all_schemas
                             THEN DictSet(related, name, all_schemas[name])
                             ELSE related
    /\ UNCHANGED <<openapi, prefix, pc, arg, ret, run, input, todo, cur, endpoints,
                   inline_schemas, schemas, all_schemas, tag_list,
                   tag_files, index_md, written>>

\* get_related_schemas, one iteration of lines 123-134; set.pop() takes an
\* arbitrary element (the order of a set of str changes with the hash seed).
Pop ==
    /\ pc = "resolve"
    /\ to_process # {}
    /\ \E name \in to_process :
          IF name \in processed
          THEN /\ to_process' = to_process \ {name}
               /\ UNCHANGED <<processed, related>>
          ELSE /\ processed' = processed \cup {name}
               /\ IF name \in DOMAIN all_schemas
                  THEN /\ related' = DictSet(related, name, all_schemas[name])
                       /\ to_process' =
                             (to_process \ {name})
                             \cup (get_nested_schema_names(all_schemas[name])
                                   \ (processed \cup {name}))
                  ELSE /\ related' = related
                       /\ to_process' = to_process \ {name}
    /\ UNCHANGED <<openapi, prefix, pc, arg, ret, run, input, todo, cur, endpoints,
                   inline_schemas, schemas, all_schemas, tag_list,
                   tag_files, index_md, written>>

\* get_related_schemas returns; generate_per_tag_markdown lines 212-215
RenderTag ==
    /\ pc = "resolve"
    /\ to_process = {}
    /\ tag_list # <<>>
    /\ run > 0
    /\ tag_files' = (tag_to_filename(tag_list[1]) \o s_md
                     :> generate_tag_markdown(tag_list[1], endpoints, related, prefix))
                    @@ tag_files
    /\ tag_list' = Tail(tag_list)
    /\ pc' = "tags"
    /\ UNCHANGED <<openapi, prefix, arg, ret, run, input, todo, cur, endpoints,
                   inline_schemas, schemas, all_schemas, to_process, processed,
                   related, index_md, written>>

\* main.py lines 60-71: the files are written, then the index
WriteIndex ==
    /\ pc = "tags"
    /\ tag_list = <<>>
    /\ index_md' = generate_index_markdown(endpoints)
    /\ written' = Append(written, [tag_files |-> tag_files,
                                   index_md |-> generate_index_markdown(endpoints)])
    /\ pc' = "done"
    /\ UNCHANGED <<openapi, prefix, arg, ret, run, input, todo, cur, endpoints,
                   inline_schemas, schemas, all_schemas, tag_list, to_process,
                   processed, related, tag_files>>

\* What parse_endpoints, or else parse_schemas, iterates over first
StartTodo(doc) ==
    IF OpList(doc) # <<>> THEN OpList(doc) ELSE Sorted(DOMAIN doc.components.schemas)
StartPc(doc) == IF OpList(doc) # <<>> THEN "request" ELSE "schemas"

\* The state main starts in, on the document as fetched
Started(doc) ==
    /\ openapi = doc
    /\ todo = StartTodo(doc)
    /\ pc = StartPc(doc)
    /\ cur = EmptyDict
    /\ endpoints = <<>>
    /\ inline_schemas = NoProps
    /\ schemas = NoProps
    /\ all_schemas = NoProps
    /\ tag_list = <<>>
    /\ to_process = {}
    /\ processed = {}
    /\ related = <<>>
    /\ tag_files = NoProps
    /\ index_md = None

\* main is run a second time on the same input
Rerun ==
    /\ pc = "done"
    /\ run = 1
    /\ run' = 2
    /\ openapi' = input
    /\ todo' = StartTodo(input)
    /\ pc' = StartPc(input)
    /\ cur' = EmptyDict
    /\ endpoints' = <<>>
    /\ inline_schemas' = NoProps
    /\ schemas' = NoProps
    /\ all_schemas' = NoProps
    /\ tag_list' = <<>>
    /\ to_process' = {}
    /\ processed' = {}
    /\ related' = <<>>
    /\ tag_files' = NoProps
    /\ index_md' = None
    /\ UNCHANGED <<prefix, arg, ret, input, written>>

(***************************************************************************)
(* The documents main is run on.                                           *)
(***************************************************************************)
MaxPaths == 1

n_t == <<"t">>
n_u == <<"u">>
n_x == <<"x">>
n_y == <<"y">>
n_q == <<"q">>
n_n == <<"n">>
n_g == <<"g">>
n_c == <<"c">>
n_G == <<"G">>
n_ok == <<"o", "k">>
n_xResponse == n_x \o s_Response
n_z == <<"z">>
n_T == <<"T">>
n_x_y == <<"x", ".", "y">>

Content(schema) ==
    << [media_type |-> "application/json", value |-> [j |-> "dict", schema |-> schema]] >>
Body(schema) == [j |-> "dict", content |-> Content(schema)]

Op_RefA ==
    [j |-> "dict", operationId |-> n_x, tags |-> <<n_t>>,
     responses |-> ("200" :> Body(Ref(n_A)))]
Op_InlineOk ==
    [j |-> "dict", operationId |-> n_x,
     responses |-> ("200" :> Body(Obj((n_ok :> Typed(s_boolean)), <<>>)))]
Op_NoId ==
    [j |-> "dict", tags |-> <<n_t, n_u>>,
     requestBody |-> Body(Ref(n_B)),
     responses |-> ("200" :> EmptyDict)
                   @@ ("201" :> Body(Obj((n_a :> Typed(s_string)), <<>>)))]
Op_Params ==
    [j |-> "dict", operationId |-> n_x, tags |-> <<n_t>>,
     responses |-> ("default" :> Body(Obj((n_n :> Typed(s_number)), <<n_n>>))),
     parameters |-> << [j |-> "dict", name |-> n_q, schema |-> Typed(s_string),
                        required |-> TRUE] >>]
Op_Array ==
    [j |-> "dict", operationId |-> n_y, tags |-> <<n_u>>,
     requestBody |-> Body(Ref(n_A)),
     responses |-> ("200" :> Body(ArrayOf(Obj((n_a :> Typed(s_string)), <<>>))))]

\* operationId y as Op_Array, answering with an array of objects that match no
\* component schema
Op_ArrayN ==
    [j |-> "dict", operationId |-> n_y, tags |-> <<n_u>>,
     responses |-> ("200" :> Body(ArrayOf(Obj((n_n :> Typed(s_number)), <<>>))))]
\* "tags": []
Op_EmptyTags ==
    [j |-> "dict", operationId |-> n_z, tags |-> <<>>,
     responses |-> ("200" :> Body(Ref(n_A)))]
\* an operationId with a character that is no letter, digit or underscore
Op_Dotted ==
    [j |-> "dict", operationId |-> n_x_y, tags |-> <<n_t>>,
     responses |-> ("200" :> Body(Obj((n_ok :> Typed(s_boolean)), <<>>)))]
\* the tag "T", beside the tag "t"
Op_Upper ==
    [j |-> "dict", operationId |-> n_z, tags |-> <<n_T>>,
     responses |-> ("200" :> Body(Ref(n_B)))]

PathItems ==
    { (s_get :> Op_RefA),
      (s_get :> Op_InlineOk) @@ (s_post :> Op_Params),
      (s_get :> Op_Params) @@ (s_post :> Op_NoId),
      (s_get :> Op_Array),
      (s_post :> Op_NoId),
      (s_get :> Op_ArrayN) @@ (s_post :> Op_Array),
      (s_get :> Op_EmptyTags) @@ (s_post :> Op_Dotted) @@ (s_put :> Op_Upper) }

PathList == <<<<"/", "a">>, <<"/", "b">>, <<"/", "c">>, <<"/", "d">>>>
PathSet == {PathList[i] : i \in 1..MaxPaths}
PathTables == UNION {[S -> PathItems] : S \in SUBSET PathSet}

Components ==
    { NoProps,
      (n_A :> Obj((n_b :> Ref(n_B)), <<n_b>>))
          @@ (n_B :> Obj((n_a :> Ref(n_A)), <<>>)),
      (n_User :> Obj((n_a :> Typed(s_string)), <<>>))
          @@ (n_xResponse :> Obj((n_b :> Typed(s_number)), <<>>)),
      (n_A :> Obj((n_b :> ArrayOf(Ref(n_B))) @@ (n_g :> Ref(n_G)), <<>>))
          @@ (n_B :> Obj((n_c :> Ref(n_C)), <<>>))
          @@ (n_C :> Obj((n_a :> [j |-> "dict", type |-> JStr(s_string),
                                  nullable |-> TRUE]), <<>>)),
      (n_A :> [j |-> "dict", type |-> JStr(s_object),
               properties |-> (n_a :> Typed(s_string)),
               allOf |-> <<Ref(n_B)>>])
          @@ (n_B :> Obj((n_b :> Typed(s_number)), <<n_b>>)) }

Docs == {MkDoc(p, k) : p \in PathTables, k \in Components}

Init ==
    /\ input \in Docs
    /\ prefix \in {s_I, s_T}
    /\ run = 1
    /\ written = <<>>
    /\ arg = None
    /\ ret = None
    /\ Started(input)

Next ==
    \/ ParseRequest
    \/ ParseResponse
    \/ ParseParameters
    \/ ParseComponent
    \/ Merge
    \/ StartTag
    \/ Pop
    \/ RenderTag
    \/ WriteIndex
    \/ Rerun

Spec == Init /\ [][Next]_vars

(***************************************************************************)
(* get_related_schemas applied to endpoints, a tag and a schema table.     *)
(***************************************************************************)
MaxRefs == 2

SchemaNames == {n_A, n_B, n_C}
RefTargets == {n_A, n_B, n_C, n_G}

\* How a property's type string refers to a schema
TypeStrFor(target) ==
    CASE target = n_A -> s_I \o n_A
      [] target = n_B -> s_I \o n_B \o s_brackets
      [] target = n_C -> s_I \o n_C \o s_ornull
      [] OTHER -> s_record \o s_I \o target \o s_gt

SchemaWithRefs(name, refs) ==
    LET targets == Sorted(refs)
    IN  [name |-> name,
         properties |-> [i \in DOMAIN targets |->
                            [name |-> Lower(targets[i]),
                             type_str |-> TypeStrFor(targets[i]),
                             required |-> TRUE]]]

RefSets == {R \in SUBSET RefTargets : Cardinality(R) <= MaxRefs}

SchemaTables ==
    UNION {{[n \in S |-> SchemaWithRefs(n, refs[n])] : refs \in [S -> RefSets]} :
              S \in SUBSET SchemaNames}

Ep(tags, request_body, response) ==
    [method |-> Upper(s_get), path |-> <<"/", "a">>, operation_id |-> <<>>,
     summary |-> <<>>, tags |-> tags, request_body |-> request_body,
     response |-> response, parameters |-> None]

EndpointLists ==
    { <<Ep(<<n_t>>, None, s_I \o n_A)>>,
      <<Ep(<<n_t, n_u>>, s_I \o n_B, s_I \o n_A \o s_brackets),
        Ep(<<n_u>>, None, s_I \o n_C)>>,
      <<Ep(<<n_u>>, None, s_I \o n_A),
        Ep(<<n_t>>, s_I \o n_C \o s_union \o s_I \o n_G, s_string)>> }

ResolveInit ==
    /\ all_schemas \in SchemaTables
    /\ endpoints \in EndpointLists
    /\ tag_list = <<n_t>>
    /\ pc = "tags"
    /\ prefix = s_I
    /\ openapi = EmptyDict
    /\ arg = None
    /\ ret = <<>>
    /\ run = 0
    /\ input = EmptyDict
    /\ todo = <<>>
    /\ cur = EmptyDict
    /\ inline_schemas = NoProps
    /\ schemas = NoProps
    /\ to_process = {}
    /\ processed = {}
    /\ related = <<>>
    /\ tag_files = NoProps
    /\ index_md = None
    /\ written = <<>>

\* get_related_schemas returns related (line 136)
ResolveReturn ==
    /\ pc = "resolve"
    /\ to_process = {}
    /\ run = 0
    /\ ret' = related
    /\ pc' = "returned"
    /\ UNCHANGED <<openapi, prefix, arg, run, input, todo, cur, endpoints,
                   inline_schemas, schemas, all_schemas, tag_list, to_process,
                   processed, related, tag_files, index_md, written>>

ResolveNext == StartTag \/ Pop \/ ResolveReturn

ResolveSpec == ResolveInit /\ [][ResolveNext]_vars

\* The program runs on: a step that can be taken is taken.
FairResolveSpec == ResolveSpec /\ WF_vars(ResolveNext)

(***************************************************************************)
(* Properties of get_related_schemas.                                      *)
(***************************************************************************)
\* The names of the table reachable from a set of names by following the
\* names found in the type strings of the schemas reached
RECURSIVE Reach(_, _)
Reach(S, table) ==
    LET more == UNION {get_nested_schema_names(table[n]) : n \in S \cap DOMAIN table}
    IN  IF more \subseteq S THEN S ELSE Reach(S \cup more, table)

\* A and B refer to each other and to nothing else, and the tag's only seed is A
CycleAB ==
    /\ {n_A, n_B} \subseteq DOMAIN all_schemas
    /\ get_nested_schema_names(all_schemas[n_A]) = {n_B}
    /\ get_nested_schema_names(all_schemas[n_B]) = {n_A}
    /\ SeedNames(endpoints, tag_list[1]) = {n_A}

\* C1: get_related_schemas always returns, whatever the schema table (tables
\* with reference cycles included), and on the cycle A -> B -> A seeded with A
\* the keys of the result are exactly {A, B}.
C1_Terminates ==
    /\ <>(pc = "returned")
    /\ [](pc = "returned" /\ CycleAB => Keys(ret) = {n_A, n_B})

C1_Witness ==
    /\ pc = "returned"
    /\ CycleAB
    /\ processed = {n_A, n_B}
    /\ Keys(ret) = {n_A, n_B}

\* C2: whatever the order of the pops, the keys of the result of
\* get_related_schemas are the names of all_schemas reachable from the seeds.
C2_ReachableSet ==
    pc = "returned" =>
        Keys(ret) = Reach(SeedNames(endpoints, tag_list[1]), all_schemas)
                    \cap DOMAIN all_schemas

C2_Witness ==
    /\ pc = "returned"
    /\ Cardinality(SeedNames(endpoints, tag_list[1])) >= 2
    /\ Keys(ret) \ SeedNames(endpoints, tag_list[1]) # {}
    /\ processed \ DOMAIN all_schemas # {}
    /\ Len(ret) >= 3
    /\ ret[1].key = n_B

(***************************************************************************)
(* Properties of find_matching_schema.                                     *)
(***************************************************************************)
\* The component schemas the rule of lines 110-114 accepts for property names
\* P and required names R
MatchSet(P, R, doc) ==
    {n \in DOMAIN doc.components.schemas :
        /\ PropNames(doc.components.schemas[n]) = P
        /\ \/ R = {}
           \/ RequiredSet(doc.components.schemas[n]) = {}
           \/ RequiredSet(doc.components.schemas[n]) = R}

\* C8: for an anonymous object schema with property names P (not empty) and
\* required names R, find_matching_schema returns the least name, in sorted
\* order, of the component schemas with the same property names and a required
\* set equal to R unless one of the two is empty, and None when there is no
\* such schema; so every anonymous schema with the same P and R selects the
\* same component schema.
C8_SmallestMatch ==
    pc = "matched" /\ IsDict(arg) /\ PropNames(arg) # {} =>
        LET M == MatchSet(PropNames(arg), RequiredSet(arg), openapi)
        IN  /\ M = {} => ret = None
            /\ M # {} => /\ ret \in M
                         /\ \A n \in M \ {ret} : StrLess(ret, n)
            /\ \A other \in AnonSchemas :
                   /\ IsDict(other)
                   /\ PropNames(other) = PropNames(arg)
                   /\ RequiredSet(other) = RequiredSet(arg)
                   => find_matching_schema(other, openapi) = ret

C8_Witness ==
    /\ pc = "matched"
    /\ IsDict(arg)
    /\ RequiredSet(arg) # {}
    /\ Cardinality(MatchSet(PropNames(arg), RequiredSet(arg), openapi)) >= 2
    /\ MatchSet(PropNames(arg), RequiredSet(arg), openapi) # DOMAIN openapi.components.schemas
    /\ \E n \in DOMAIN openapi.components.schemas :
           /\ StrLess(n, ret)
           /\ PropNames(openapi.components.schemas[n]) = PropNames(arg)
    /\ \E other \in AnonSchemas :
           /\ other # arg
           /\ IsDict(other)
           /\ PropNames(other) = PropNames(arg)
           /\ RequiredSet(other) = RequiredSet(arg)
    /\ ret \in DOMAIN openapi.components.schemas

(***************************************************************************)
(* Properties of openapi_type_to_ts.                                       *)
(***************************************************************************)
NullableString == [j |-> "dict", type |-> JStr(s_string), nullable |-> TRUE]
NullableTwice == [j |-> "dict", type |-> JList(<<s_string, s_null>>), nullable |-> TRUE]

\* C7: a node of type "string" translates to "string"; the same node with
\* nullable: true translates to "string | null"; and a node that is nullable
\* twice over (by its type list and by nullable: true) still translates to
\* "string | null", with a single null member.
C7_NullableString ==
    pc = "translated" =>
        /\ arg = Typed(s_string) => ret = s_string
        /\ arg = NullableString => ret = s_string \o s_ornull
        /\ arg = NullableTwice => ret = s_string \o s_ornull

\* A member of an anyOf that is the explicit null type (line 158)
IsNullMember(m) == IsDict(m) /\ TypeIs(m, s_null)

IsAnyOfNode(node) ==
    /\ IsDict(node)
    /\ Has(node, "anyOf")
    /\ ~Has(node, "$ref")
    /\ ~Has(node, "allOf")
    /\ ~Has(node, "oneOf")

\* C9: an anyOf node translates to "any" when it has no members, to "null"
\* when all its members are the null type, and otherwise to the translations
\* of its non-null members, in order, joined by " | ", followed by " | null"
\* once when some member is the null type.
C9_AnyOfRule ==
    pc = "translated" /\ IsAnyOfNode(arg) =>
        LET non_null == SelectSeq(arg.anyOf, LAMBDA m : ~IsNullMember(m))
            has_null == \E i \in DOMAIN arg.anyOf : IsNullMember(arg.anyOf[i])
        IN  ret = IF arg.anyOf = <<>> THEN s_any
                  ELSE IF non_null = <<>> THEN s_null
                  ELSE Join(s_union,
                            [i \in DOMAIN non_null |->
                                openapi_type_to_ts(non_null[i], openapi, prefix)])
                       \o (IF has_null THEN s_ornull ELSE <<>>)

C9_Witness ==
    /\ pc = "translated"
    /\ IsAnyOfNode(arg)
    /\ Len(arg.anyOf) = 3
    /\ IsNullMember(arg.anyOf[2])
    /\ arg.anyOf[1] = Ref(n_User)
    /\ arg.anyOf[3] = Typed(s_integer)
    /\ ret = prefix \o n_User \o s_union \o s_number \o s_ornull

C9_WitnessAllNull ==
    /\ pc = "translated"
    /\ IsAnyOfNode(arg)
    /\ Len(arg.anyOf) = 2
    /\ \A i \in DOMAIN arg.anyOf : IsNullMember(arg.anyOf[i])
    /\ ret = s_null

(***************************************************************************)
(* Properties of the pipeline.                                             *)
(***************************************************************************)
\* C3: every run of main on the same document writes the same files with the
\* same content, the order of the interface blocks included.
C3_SameOutput ==
    \A i, k \in DOMAIN written : written[i] = written[k]

\* C4: once merged, a name that is both a component schema and an inline
\* schema maps to the component schema.
C4_NamedWins ==
    pc \in {"tags", "resolve", "done"} =>
        \A n \in DOMAIN schemas \cap DOMAIN inline_schemas :
            all_schemas[n] = schemas[n]

\* C5: whatever the prefix, when get_related_schemas returns for a tag, every
\* schema whose prefixed name is the request or response type of an endpoint
\* of the tag is among the related schemas.
C5_PrefixUniform ==
    pc = "resolve" /\ to_process = {} =>
        \A n \in DOMAIN all_schemas :
            (\E i \in DOMAIN endpoints :
                /\ HasTag(endpoints[i], tag_list[1])
                /\ \/ endpoints[i].response = prefix \o n
                   \/ endpoints[i].request_body = prefix \o n)
            => n \in Keys(related)

\* C6: within one run of parse_endpoints, a name of the inline registry keeps
\* its schema: no step replaces or removes an entry.
C6_FirstWriterWins ==
    [][run' = run =>
          \A n \in DOMAIN inline_schemas :
              /\ n \in DOMAIN inline_schemas'
              /\ inline_schemas'[n] = inline_schemas[n]]_vars

\* The schema of the first of the responses 200, 201, default with content
RECURSIVE FirstResponseSchema(_, _)
FirstResponseSchema(responses, codes) ==
    IF codes = <<>> THEN JNone
    ELSE IF codes[1] \in DOMAIN responses
            /\ Get(responses[codes[1]], "content", <<>>) # <<>>
    THEN ContentSchema(responses[codes[1]].content)
    ELSE FirstResponseSchema(responses, Tail(codes))

\* The response schema of the operation parsed into endpoints[i]
ResponseSchemaOf(i) ==
    FirstResponseSchema(Get(Operation(input, OpList(input)[i]), "responses", NoProps),
                        StatusCodes)

\* The operation of endpoints[i] answers with an inline object that matches
\* no component schema
InlineResponse(i) ==
    /\ IsInlineObject(ResponseSchemaOf(i))
    /\ find_matching_schema(ResponseSchemaOf(i), input) = None

C6_Witness ==
    /\ pc = "schemas"
    /\ Len(endpoints) >= 2
    /\ InlineResponse(1)
    /\ InlineResponse(2)
    /\ ResponseSchemaOf(1) # ResponseSchemaOf(2)
    /\ endpoints[1].response = prefix \o n_xResponse
    /\ endpoints[2].response = prefix \o n_xResponse
    /\ DOMAIN inline_schemas = {n_xResponse, n_x \o s_Params}
    /\ inline_schemas[n_xResponse].properties[1].name = n_ok

\* The claim as first stated, C10: the registered name is operationId +
\* "Response", or the upper-case method + the path + "Response".
C10_Original ==
    \A i \in DOMAIN endpoints :
        InlineResponse(i) =>
            LET name == IF endpoints[i].operation_id # <<>>
                        THEN endpoints[i].operation_id \o s_Response
                        ELSE endpoints[i].method \o endpoints[i].path \o s_Response
            IN  /\ name \in DOMAIN inline_schemas
                /\ endpoints[i].response = prefix \o name

\* C10: for an operation answering with an inline object that matches no
\* component schema, the inline registry has the sanitized name operationId +
\* "Response", or, without operationId, the lower-case method + the path with
\* every "/" replaced by "_" + "Response"; and the endpoint's response type is
\* the prefix followed by that name.
C10_ResponseName ==
    \A i \in DOMAIN endpoints :
        InlineResponse(i) =>
            LET o == OpList(input)[i]
                name == sanitize_name(
                            IF endpoints[i].operation_id # <<>>
                            THEN endpoints[i].operation_id \o s_Response
                            ELSE o.method \o Replace(o.path, "/", <<"_">>) \o s_Response)
            IN  /\ name \in DOMAIN inline_schemas
                /\ endpoints[i].response = prefix \o name

C10_Witness ==
    \E i \in DOMAIN endpoints :
        /\ InlineResponse(i)
        /\ endpoints[i].operation_id = <<>>
        /\ endpoints[i].method = Upper(s_post)
        /\ endpoints[i].path = <<"/", "a">>
        /\ endpoints[i].response = prefix \o s_post \o <<"_", "a">> \o s_Response
        /\ (s_post \o <<"_", "a">> \o s_Response) \in DOMAIN inline_schemas

(***************************************************************************)
(* parse_schema applied to a schema definition.                            *)
(***************************************************************************)
MaxProps == 2

n_nullish == <<"n", "u", "l", "l", "i", "s", "h">>
n_nullx == <<"n", "u", "l", "l", "x">>

\* The schemas of the properties
PropNodes ==
    { Typed(s_string), Typed(s_file), Ref(n_User),
      [j |-> "dict", type |-> JStr(s_string), nullable |-> TRUE],
      [j |-> "dict", type |-> JStr(s_string), nullable |-> FALSE],
      [j |-> "dict", type |-> JList(<<s_string, s_null>>), nullable |-> TRUE],
      [j |-> "dict", type |-> JStr(s_string), enum |-> <<n_nullx>>, nullable |-> TRUE],
      Ref(n_nullish) @@ [nullable |-> TRUE],
      Ref(n_User) @@ [nullable |-> TRUE],
      [j |-> "dict", anyOf |-> <<TypedList(<<s_string, s_null>>), Typed(s_null)>>,
       nullable |-> TRUE],
      [j |-> "dict", anyOf |-> <<Typed(s_integer), Typed(s_null)>>, nullable |-> TRUE],
      JBool(TRUE), JBool(FALSE), JNone }

PropNameList == <<n_a, n_b, n_c>>
PropNameSet == {PropNameList[i] : i \in 1..MaxProps}

PropTables == UNION {[S -> PropNodes] : S \in (SUBSET PropNameSet) \ {{}}}

SchemaDefs ==
    {Obj(p, <<>>) : p \in PropTables}
    \cup {Obj(p, <<n_a>>) : p \in PropTables}
    \cup {[j |-> "dict", allOf |-> <<Ref(n_User), ObjNoReq(p)>>] : p \in PropTables}

SchemaInit ==
    /\ arg \in SchemaDefs
    /\ openapi \in TranslateDocs
    /\ prefix \in {s_I, s_T}
    /\ pc = "call"
    /\ ret = None
    /\ Idle

\* parse_schema(name, schema_def, openapi, prefix): the Schema, unless
\* prop_schema.get raised on the way
ParseSchema ==
    /\ pc = "call"
    /\ \E r \in {parse_schema(n_A, arg, openapi, prefix)} :
          ret' = IF r.raised
                 THEN [raised |-> TRUE, properties |-> <<>>]
                 ELSE [raised |-> FALSE, properties |-> r.schema.properties]
    /\ pc' = "parsed"
    /\ UNCHANGED <<openapi, prefix, arg>>
    /\ UNCHANGED mainVars

SchemaNext == ParseSchema

SchemaSpec == SchemaInit /\ [][SchemaNext]_vars

(***************************************************************************)
(* Properties of parse_schema.                                             *)
(***************************************************************************)
\* C12: translation never raises: parse_schema completes for every schema
\* whose properties are schema nodes of the accepted shapes (the boolean
\* schemas and null included), with a type string for every property.
C12_NeverRaises ==
    pc = "parsed" =>
        /\ ~ret.raised
        /\ \A i \in DOMAIN ret.properties : ret.properties[i].type_str # None

\* s without its leading and trailing spaces
RECURSIVE Trim(_)
Trim(s) ==
    IF s = <<>> THEN s
    ELSE IF s[1] = " " THEN Trim(Tail(s))
    ELSE IF s[Len(s)] = " " THEN Trim(SubSeq(s, 1, Len(s) - 1))
    ELSE s

\* The number of members of the union t that are the null type
NullMembers(t) ==
    Cardinality({i \in DOMAIN Split(t, "|") : Trim(Split(t, "|")[i]) = s_null})

\* The properties parse_schema iterates over: those of the definition, or of
\* the second member of its allOf
DeclaredProps(schema_def) ==
    IF Has(schema_def, "properties") THEN schema_def.properties
    ELSE schema_def.allOf[2].properties

\* C14: the type string of every property that declares nullable: true has
\* exactly one null member.
C14_NullOnce ==
    pc = "parsed" /\ ~ret.raised =>
        \A i \in DOMAIN ret.properties :
            LET name == ret.properties[i].name
            IN  /\ name \in DOMAIN DeclaredProps(arg)
                /\ Get(DeclaredProps(arg)[name], "nullable", FALSE)
                => NullMembers(ret.properties[i].type_str) = 1

\* The endpoint's type string names the schema n under the prefix p, alone
\* or as the element type of an array
References(type_str, p, n) ==
    \/ type_str = p \o n
    \/ type_str = p \o n \o s_brackets

\* C17: with the prefix "I", when get_related_schemas returns for a tag, every
\* schema of the merged table whose prefixed name the request or response type
\* of an endpoint of the tag references is among the related schemas,
\* whatever characters the name contains.
C17_AnyCharacters ==
    pc = "resolve" /\ to_process = {} /\ prefix = s_I =>
        \A n \in DOMAIN all_schemas :
            (\E i \in DOMAIN endpoints :
                /\ HasTag(endpoints[i], tag_list[1])
                /\ \/ References(endpoints[i].response, s_I, n)
                   \/ References(endpoints[i].request_body, s_I, n))
            => n \in Keys(related)

\* C15: parsing leaves the document as it was read.
C15_DocUnchanged ==
    openapi = input

\* The operation of endpoints[i] answers with an array whose items are an
\* inline object that matches a component schema
MatchedItems(i) ==
    /\ IsDict(ResponseSchemaOf(i))
    /\ IsArrayOfInline(ResponseSchemaOf(i))
    /\ ~Has(ResponseSchemaOf(i).items, "$ref")
    /\ find_matching_schema(ResponseSchemaOf(i).items, input) # None

\* C13: for an array whose items are an inline object matched to the
\* component schema M, the response type is the prefix followed by M and
\* "[]", whatever the inline registry contains.
C13_MatchedArray ==
    \A i \in DOMAIN endpoints :
        MatchedItems(i) =>
            endpoints[i].response
              = prefix \o find_matching_schema(ResponseSchemaOf(i).items, input)
                \o s_brackets

\* C16: when all files are generated, every endpoint has a tag whose file
\* lists the endpoint in its table.
C16_EveryEndpointListed ==
    pc = "done" =>
        \A i \in DOMAIN endpoints :
            \E tag \in Range(endpoints[i].tags) :
                /\ tag_to_filename(tag) \o s_md \in DOMAIN tag_files
                /\ EndpointRow(endpoints[i])
                     \in Range(tag_files[tag_to_filename(tag) \o s_md])

\* C11: two different tags have two different file names, and when all files
\* are generated there is one file per distinct tag.
C11_OneFilePerTag ==
    pc = "done" =>
        /\ \A t1, t2 \in AllTags(endpoints) :
              t1 # t2 => tag_to_filename(t1) # tag_to_filename(t2)
        /\ Cardinality(DOMAIN tag_files) = Cardinality(AllTags(endpoints))

=============================================================================
